---- MODULE Spec2Model ----
(***************************************************************************)
(* Quick-RMBG: the orchestration layer of src/quick_rmbg/cli.py (single    *)
(* pass, two-pass and infinite-hop background removal) together with the   *)
(* configuration getters of src/quick_rmbg/config.py it calls.             *)
(*                                                                         *)
(* Text is modelled at character level where the code builds or compares   *)
(* file names (a name is a sequence of one-character strings), so that     *)
(* stem/suffix splitting, lower-casing and name construction are computed  *)
(* and not assumed.  A message is a sequence of lines (the code joins them *)
(* with "\n"); a line is a sequence of fragments.                          *)
(***************************************************************************)
EXTENDS Integers, Sequences, FiniteSets, TLC

(* ------------------------------ bounds --------------------------------- *)

\* The infinite-hop loop is unbounded in the code; the model lets the user
\* decline at most MaxPasses - 1 times, i.e. runs at most MaxPasses passes.
MaxPasses == 3

(* --------------------------- text helpers ------------------------------ *)

NONE == "<None>"

UpperToLower ==
  [c \in {"A","B","C","D","E","F","G","H","I","J","K","L","M","N","O","P","Q",
          "R","S","T","U","V","W","X","Y","Z"} |->
     CASE c = "A" -> "a" [] c = "B" -> "b" [] c = "C" -> "c" [] c = "D" -> "d"
       [] c = "E" -> "e" [] c = "F" -> "f" [] c = "G" -> "g" [] c = "H" -> "h"
       [] c = "I" -> "i" [] c = "J" -> "j" [] c = "K" -> "k" [] c = "L" -> "l"
       [] c = "M" -> "m" [] c = "N" -> "n" [] c = "O" -> "o" [] c = "P" -> "p"
       [] c = "Q" -> "q" [] c = "R" -> "r" [] c = "S" -> "s" [] c = "T" -> "t"
       [] c = "U" -> "u" [] c = "V" -> "v" [] c = "W" -> "w" [] c = "X" -> "x"
       [] c = "Y" -> "y" [] c = "Z" -> "z"]

\* str.lower() on a sequence of characters
Lower(s) ==
  [i \in 1..Len(s) |-> IF s[i] \in DOMAIN UpperToLower THEN UpperToLower[s[i]] ELSE s[i]]

\* str.rfind("."): the last index holding a dot, 0 when there is none
RFindDot(s) ==
  LET dots == {i \in 1..Len(s) : s[i] = "."}
  IN  IF dots = {} THEN 0 ELSE CHOOSE i \in dots : \A j \in dots : j <= i

\* pathlib's PurePath.suffix of a final path component: the text from the
\* last dot, unless that dot is the first or the last character
PathSuffix(name) ==
  LET i == RFindDot(name)
  IN  IF 1 < i /\ i < Len(name) THEN SubSeq(name, i, Len(name)) ELSE <<>>

\* pathlib's PurePath.stem
PathStem(name) ==
  LET i == RFindDot(name)
  IN  IF 1 < i /\ i < Len(name) THEN SubSeq(name, 1, i - 1) ELSE name

DigitChar(d) ==
  CASE d = 0 -> "0" [] d = 1 -> "1" [] d = 2 -> "2" [] d = 3 -> "3" [] d = 4 -> "4"
    [] d = 5 -> "5" [] d = 6 -> "6" [] d = 7 -> "7" [] d = 8 -> "8" [] d = 9 -> "9"

RECURSIVE IntToStr(_)
\* str(n) for n >= 0, as formatted into the f-strings
IntToStr(n) ==
  IF n < 10 THEN <<DigitChar(n)>> ELSE IntToStr(n \div 10) \o <<DigitChar(n % 10)>>

\* str(path) of a path [parent, name]
PathStr(p) == <<p.parent, "/">> \o p.name

(* --------------------------- cli.py constants -------------------------- *)

SUPPORTED_FORMATS ==
  { <<".", "p", "n", "g">>, <<".", "j", "p", "g">>, <<".", "j", "p", "e", "g">>,
    <<".", "w", "e", "b", "p">>, <<".", "b", "m", "p">>,
    <<".", "t", "i", "f", "f">>, <<".", "t", "i", "f">> }

PngExt == <<".", "p", "n", "g">>

FirstPassTail ==
  <<"_", "n", "o", "B", "G", "-", "f", "i", "r", "s", "t", "-", "p", "a", "s", "s">> \o PngExt

SecondPassTail ==
  <<"_", "n", "o", "B", "G", "-", "s", "e", "c", "o", "n", "d", "-", "p", "a", "s", "s">> \o PngExt

HopPassTail(n) ==
  <<"_", "n", "o", "B", "G", "-", "p", "a", "s", "s", "-">> \o IntToStr(n) \o PngExt

TimeoutMessage == "Operation timed out (>2 minutes)"

UnknownError == "Unknown error"

NotFoundMessage ==
  << <<"rembg not found.">>, <<"Install it with: pip install rembg[cli]">> >>

(* --------------------------- config.py --------------------------------- *)

DEFAULT_CONFIG ==
  [ rembg_binary     |-> "",
    output_suffix    |-> <<"_", "n", "o", "B", "G">>,
    model            |-> "u2net",
    rocm_gfx_version |-> "11.0.1" ]

\* {**DEFAULT_CONFIG, **saved}
MergeDicts(d, s) ==
  [k \in (DOMAIN d) \cup (DOMAIN s) |-> IF k \in DOMAIN s THEN s[k] ELSE d[k]]

\* load_config(): json.load raises on a file that is not valid JSON
LoadConfig(cstate, saved) ==
  CASE cstate = "absent"  -> [raised |-> FALSE, config |-> DEFAULT_CONFIG]
    [] cstate = "valid"   -> [raised |-> FALSE, config |-> MergeDicts(DEFAULT_CONFIG, saved)]
    [] cstate = "corrupt" -> [raised |-> TRUE,  config |-> DEFAULT_CONFIG]

COMMON_PATHS == <<"~/.local/bin/rembg", "/usr/local/bin/rembg", "/usr/bin/rembg">>

\* find_rembg_binary(): PATH first, then the first existing common location
FindRembgBinary(whichResult, existing) ==
  IF whichResult # NONE THEN whichResult
  ELSE LET hits == {i \in 1..Len(COMMON_PATHS) : COMMON_PATHS[i] \in existing}
       IN  IF hits = {} THEN NONE
           ELSE COMMON_PATHS[CHOOSE i \in hits : \A j \in hits : i <= j]

\* mutant: the configured path is used without checking that it exists
GetRembgBinary_NoExistsCheck(config, whichResult, existing) ==
  IF config.rembg_binary # ""
  THEN config.rembg_binary
  ELSE FindRembgBinary(whichResult, existing)

\* get_rembg_binary() on a loaded config
GetRembgBinary(config, whichResult, existing) ==
  IF config.rembg_binary # "" /\ config.rembg_binary \in existing
  THEN config.rembg_binary
  ELSE FindRembgBinary(whichResult, existing)

\* get_output_suffix() on a loaded config
GetOutputSuffix(config) == config.output_suffix

\* get_model() on a loaded config
GetModel(config) == config.model

\* get_rocm_gfx_version() on a loaded config: empty string and null are disabled
GetRocmGfxVersion(config) ==
  IF config.rocm_gfx_version = "" \/ config.rocm_gfx_version = NONE
  THEN NONE ELSE config.rocm_gfx_version

(* --------------------------- inputs of a run --------------------------- *)

P(parent, name) == [parent |-> parent, name |-> name]

\* candidate input paths: allow-listed, upper-case allow-listed, unsupported,
\* a two-dot name with a mixed-case extension, and a name with no extension
InputPaths ==
  { P("/d", <<"p", ".", "p", "n", "g">>),
    P("/d", <<"p", ".", "P", "N", "G">>),
    P("/d", <<"p", ".", "g", "i", "f">>),
    P("/d", <<"a", ".", "b", ".", "J", "p", "e", "g">>),
    P("/d", <<"p">>) }

\* args.output: an Option (<<>> is None, <<path>> is a supplied path)
OutputArgs ==
  { <<>>, << P("/d", <<"p", ".", "p", "n", "g">>) >>, << P("/o", <<"o", ".", "p", "n", "g">>) >> }

\* contents of the saved config file when it parses
SavedConfigs ==
  { [rembg_binary |-> "/opt/rembg"],
    [output_suffix |-> <<"-", "x">>],
    [output_suffix |-> <<>>, rocm_gfx_version |-> ""],
    [rocm_gfx_version |-> NONE, model |-> "u2netp"],
    [rocm_gfx_version |-> "10.3.0", rembg_binary |-> "/gone/rembg"] }

\* what shutil.which("rembg") returns and which binary paths exist
BinEnvs ==
  { [which |-> "/usr/bin/rembg", existing |-> {"/usr/bin/rembg", "/opt/rembg"}],
    [which |-> NONE, existing |-> {"/usr/local/bin/rembg", "/usr/bin/rembg"}],
    [which |-> NONE, existing |-> {"/opt/rembg"}] }

\* os.environ
Environs ==
  { [PATH |-> "/usr/bin"],
    [PATH |-> "/usr/bin", HSA_OVERRIDE_GFX_VERSION |-> "9.0.0"] }

\* the machines a run is tried on: a config file, the binaries installed and
\* the ambient environment, paired so that each lookup path of the getters,
\* each override setting and each ambient setting occurs
Machines ==
  LET M(cs, saved, which, existing, ambient) ==
        [configState |-> cs, configSaved |-> saved,
         binEnv |-> [which |-> which, existing |-> existing], environ |-> ambient]
      none    == [model |-> "u2net"]
      onPath  == {"/usr/bin/rembg", "/opt/rembg"}
      common  == {"/usr/local/bin/rembg", "/usr/bin/rembg"}
      optOnly == {"/opt/rembg"}
      plain   == [PATH |-> "/usr/bin"]
      withHsa == [PATH |-> "/usr/bin", HSA_OVERRIDE_GFX_VERSION |-> "9.0.0"]
  IN  { M("absent",  none, "/usr/bin/rembg", onPath, plain),
        M("absent",  none, NONE, common, withHsa),
        M("absent",  none, NONE, optOnly, plain),
        M("corrupt", none, "/usr/bin/rembg", onPath, plain),
        M("corrupt", none, NONE, optOnly, withHsa),
        M("valid", [rembg_binary |-> "/opt/rembg"], NONE, optOnly, plain),
        M("valid", [output_suffix |-> <<"-", "x">>], "/usr/bin/rembg", onPath, plain),
        M("valid", [output_suffix |-> <<>>, rocm_gfx_version |-> ""], NONE, common, withHsa),
        M("valid", [output_suffix |-> <<>>, rocm_gfx_version |-> ""],
          "/usr/bin/rembg", onPath, plain),
        M("valid", [rocm_gfx_version |-> NONE, model |-> "u2netp"],
          "/usr/bin/rembg", onPath, withHsa),
        M("valid", [rocm_gfx_version |-> "10.3.0", rembg_binary |-> "/gone/rembg"],
          NONE, optOnly, plain),
        M("valid", [rocm_gfx_version |-> "10.3.0", rembg_binary |-> "/gone/rembg"],
          NONE, common, withHsa) }

\* what the spawned removal process can do
ProcOutcomes ==
  { [kind |-> "exit", returncode |-> 0, stdout |-> "out", stderr |-> "err", errtext |-> ""] }
  \cup
  { [kind |-> "exit", returncode |-> 1, stdout |-> so, stderr |-> se, errtext |-> ""]
      : so \in {"", "out"}, se \in {"", "err"} }
  \cup
  { [kind |-> "timeout", returncode |-> 0, stdout |-> "", stderr |-> se, errtext |-> ""]
      : se \in {"", "err"} }
  \cup
  { [kind |-> "oserror", returncode |-> 0, stdout |-> "", stderr |-> "",
     errtext |-> "[Errno 13] Permission denied"] }

\* what launching a dialog / notification tool can do
DialogOutcomes ==
  { [kind |-> "notfound", returncode |-> 0],
    [kind |-> "oserror",  returncode |-> 0],
    [kind |-> "exit",     returncode |-> 0],
    [kind |-> "exit",     returncode |-> 1],
    [kind |-> "exit",     returncode |-> 2] }

(* --------------------------- cli.py functions -------------------------- *)

\* mutant: stdout is preferred over stderr in the failure message
RunRembg_StdoutFirst(o) ==
  CASE o.kind = "exit" ->
         IF o.returncode = 0
         THEN [success |-> TRUE, error |-> ""]
         ELSE [success |-> FALSE,
               error |-> IF o.stdout # "" THEN o.stdout
                         ELSE IF o.stderr # "" THEN o.stderr ELSE UnknownError]
    [] o.kind = "timeout" -> [success |-> FALSE, error |-> TimeoutMessage]
    [] o.kind = "oserror" -> [success |-> FALSE, error |-> o.errtext]

\* mutant: a timeout is handled like a failed exit
RunRembg_TimeoutAsExit(o) ==
  CASE o.kind = "exit" /\ o.returncode = 0 -> [success |-> TRUE, error |-> ""]
    [] o.kind = "oserror" -> [success |-> FALSE, error |-> o.errtext]
    [] OTHER ->
         [success |-> FALSE,
          error |-> IF o.stderr # "" THEN o.stderr
                    ELSE IF o.stdout # "" THEN o.stdout ELSE UnknownError]

\* _run_rembg(): the (success, error) pair for one outcome of subprocess.run
RunRembg(o) ==
  CASE o.kind = "exit" ->
         IF o.returncode = 0
         THEN [success |-> TRUE, error |-> ""]
         ELSE [success |-> FALSE,
               error |-> IF o.stderr # "" THEN o.stderr
                         ELSE IF o.stdout # "" THEN o.stdout ELSE UnknownError]
    [] o.kind = "timeout" -> [success |-> FALSE, error |-> TimeoutMessage]
    [] o.kind = "oserror" -> [success |-> FALSE, error |-> o.errtext]

\* mutant: without an override the variable is set to the empty string
BuildEnv_SetsEmpty(ambient, rocm_gfx) ==
  MergeDicts(ambient, [HSA_OVERRIDE_GFX_VERSION |->
                         IF rocm_gfx # NONE THEN rocm_gfx ELSE ""])

\* the environment _prepare_rembg() builds: a copy of os.environ, with the
\* override variable set only when a version is configured
BuildEnv(ambient, rocm_gfx) ==
  IF rocm_gfx # NONE
  THEN MergeDicts(ambient, [HSA_OVERRIDE_GFX_VERSION |-> rocm_gfx])
  ELSE ambient

\* _prepare_rembg(): (rembg_binary, model, env, error); raised when a config
\* getter raises
PrepareRembg(cstate, saved, whichResult, existing, ambient) ==
  LET lc  == LoadConfig(cstate, saved)
      bin == GetRembgBinary(lc.config, whichResult, existing)
  IN  IF lc.raised
      THEN [raised |-> TRUE, binary |-> NONE, model |-> "", env |-> ambient, error |-> <<>>]
      ELSE IF bin = NONE
      THEN [raised |-> FALSE, binary |-> NONE, model |-> "", env |-> ambient,
            error |-> NotFoundMessage]
      ELSE [raised |-> FALSE, binary |-> bin, model |-> GetModel(lc.config),
            env |-> BuildEnv(ambient, GetRocmGfxVersion(lc.config)), error |-> <<>>]

\* mutant: the extension check is missing
ValidateInput_NoFormatCheck(input_path, fileset) ==
  IF input_path \notin fileset
  THEN << <<"File not found: ">> \o PathStr(input_path) >>
  ELSE <<>>

\* mutant: the two checks are made in the opposite order
ValidateInput_FormatFirst(input_path, fileset) ==
  IF Lower(PathSuffix(input_path.name)) \notin SUPPORTED_FORMATS
  THEN << <<"Unsupported format: ">> \o PathSuffix(input_path.name) >>
  ELSE IF input_path \notin fileset
  THEN << <<"File not found: ">> \o PathStr(input_path) >>
  ELSE <<>>

\* the shared precondition check: the error message, or <<>> when the input passes
ValidateInput(input_path, fileset) ==
  IF input_path \notin fileset
  THEN << <<"File not found: ">> \o PathStr(input_path) >>
  ELSE IF Lower(PathSuffix(input_path.name)) \notin SUPPORTED_FORMATS
  THEN << <<"Unsupported format: ">> \o PathSuffix(input_path.name) >>
  ELSE <<>>

\* sibling of the input: input_path.parent / f"{input_path.stem}{tail}"
Sibling(input_path, tail) == P(input_path.parent, PathStem(input_path.name) \o tail)

\* mutant: the output keeps the input's extension
SingleOutputPath_KeepsExtension(input_path, output_arg, suffix) ==
  IF output_arg = <<>>
  THEN Sibling(input_path, suffix \o PathSuffix(input_path.name))
  ELSE output_arg[1]

\* single pass: the output path handed to the tool
SingleOutputPath(input_path, output_arg, suffix) ==
  IF output_arg = <<>> THEN Sibling(input_path, suffix \o PngExt) ELSE output_arg[1]

FirstPassPath(input_path) == Sibling(input_path, FirstPassTail)

\* mutant: the second pass writes over the first pass's file
SecondPassPath_Overwrite(input_path) == Sibling(input_path, FirstPassTail)

SecondPassPath(input_path) == Sibling(input_path, SecondPassTail)

HopOutputPath(input_path, n) == Sibling(input_path, HopPassTail(n))

\* the failure message of a pass: f"{label}{error}"
FailMessage(label, error) == << label \o <<error>> >>

\* mutant: the pass list stops one short
HopSummary_DropsLast(n, passes, final) ==
  IF n = 1
  THEN << <<"Infinite Hop complete after 1 pass.">>, <<"Final: ">> \o final.name >>
  ELSE << <<"Infinite Hop complete after ">> \o IntToStr(n) \o <<" passes.">> >>
       \o [i \in 1..(Len(passes) - 1) |-> <<"  Pass ">> \o IntToStr(i) \o <<": ">> \o passes[i]]
       \o << <<"Final: ">> \o final.name >>

\* the summary built after the infinite-hop loop
HopSummary(n, passes, final) ==
  IF n = 1
  THEN << <<"Infinite Hop complete after 1 pass.">>, <<"Final: ">> \o final.name >>
  ELSE << <<"Infinite Hop complete after ">> \o IntToStr(n) \o <<" passes.">> >>
       \o [i \in 1..Len(passes) |-> <<"  Pass ">> \o IntToStr(i) \o <<": ">> \o passes[i]]
       \o << <<"Final: ">> \o final.name >>

\* one subprocess.run of a dialog tool and how it ended
Launched(tool, o) == [tool |-> tool, kind |-> o.kind, returncode |-> o.returncode]

\* mutant: with no dialog tool the gate asks for another pass
AskUserHappy_NoAutoAccept(kd, zn) ==
  IF kd.kind = "exit"
  THEN [raised |-> FALSE, happy |-> kd.returncode = 0,
        invoked |-> <<Launched("kdialog", kd)>>]
  ELSE IF kd.kind = "oserror"
  THEN [raised |-> TRUE, happy |-> FALSE, invoked |-> <<Launched("kdialog", kd)>>]
  ELSE IF zn.kind = "exit"
  THEN [raised |-> FALSE, happy |-> zn.returncode = 0,
        invoked |-> <<Launched("kdialog", kd), Launched("zenity", zn)>>]
  ELSE IF zn.kind = "oserror"
  THEN [raised |-> TRUE, happy |-> FALSE,
        invoked |-> <<Launched("kdialog", kd), Launched("zenity", zn)>>]
  ELSE [raised |-> FALSE, happy |-> FALSE,
        invoked |-> <<Launched("kdialog", kd), Launched("zenity", zn)>>]

\* mutant: only exit code 1 is read as "No", any other code as "Yes"
AskUserHappy_OnlyOneIsNo(kd, zn) ==
  IF kd.kind = "exit"
  THEN [raised |-> FALSE, happy |-> kd.returncode # 1,
        invoked |-> <<Launched("kdialog", kd)>>]
  ELSE IF kd.kind = "oserror"
  THEN [raised |-> TRUE, happy |-> FALSE, invoked |-> <<Launched("kdialog", kd)>>]
  ELSE IF zn.kind = "exit"
  THEN [raised |-> FALSE, happy |-> zn.returncode # 1,
        invoked |-> <<Launched("kdialog", kd), Launched("zenity", zn)>>]
  ELSE IF zn.kind = "oserror"
  THEN [raised |-> TRUE, happy |-> FALSE,
        invoked |-> <<Launched("kdialog", kd), Launched("zenity", zn)>>]
  ELSE [raised |-> FALSE, happy |-> TRUE,
        invoked |-> <<Launched("kdialog", kd), Launched("zenity", zn)>>]

\* _ask_user_happy(): kdialog first; zenity only on FileNotFoundError; auto-accept
\* when neither exists.  Any other launch error is not caught.  invoked lists
\* the tools it launched, in order, with how each launch ended.
AskUserHappy(kd, zn) ==
  IF kd.kind = "exit"
  THEN [raised |-> FALSE, happy |-> kd.returncode = 0,
        invoked |-> <<Launched("kdialog", kd)>>]
  ELSE IF kd.kind = "oserror"
  THEN [raised |-> TRUE, happy |-> FALSE, invoked |-> <<Launched("kdialog", kd)>>]
  ELSE IF zn.kind = "exit"
  THEN [raised |-> FALSE, happy |-> zn.returncode = 0,
        invoked |-> <<Launched("kdialog", kd), Launched("zenity", zn)>>]
  ELSE IF zn.kind = "oserror"
  THEN [raised |-> TRUE, happy |-> FALSE,
        invoked |-> <<Launched("kdialog", kd), Launched("zenity", zn)>>]
  ELSE [raised |-> FALSE, happy |-> TRUE,
        invoked |-> <<Launched("kdialog", kd), Launched("zenity", zn)>>]

(* ------------------------------- state --------------------------------- *)

VARIABLES
  args,          \* parsed command line: input, output, two_pass, infinite_hop
  files,         \* the paths that exist on disk
  configState,   \* the config file: "absent", "valid" or "corrupt"
  configSaved,   \* its contents when valid
  binEnv,        \* shutil.which result and existing binary paths
  environ,       \* os.environ
  pc,            \* position of the program
  mode,          \* the workflow main() selected
  rembg_binary, model, env,                             \* result of _prepare_rembg
  pass_number, current_input, all_passes, final_output, \* infinite-hop locals
  result,        \* the (success, message) pair the workflow returned
  raised,        \* the exception that escaped, "" when none
  exitStatus,    \* the process exit status, -1 while running
  reported,      \* how main() surfaced the message
  calls,         \* every _run_rembg call, in order
  gateCalls,     \* every _ask_user_happy call, in order
  trace          \* the order of checks, tool resolution, passes and gate calls

vars ==
  << args, files, configState, configSaved, binEnv, environ, pc, mode,
     rembg_binary, model, env, pass_number, current_input, all_passes, final_output,
     result, raised, exitStatus, reported, calls, gateCalls, trace >>

inputs == << args, configState, configSaved, binEnv, environ >>

hopLocals == << pass_number, current_input, all_passes, final_output >>

prepared == << rembg_binary, model, env >>

NoResult == [success |-> FALSE, message |-> <<>>]

Init ==
  /\ args \in [input : InputPaths, output : OutputArgs,
               two_pass : BOOLEAN, infinite_hop : BOOLEAN]
  /\ files \in { {}, {args.input} }
  /\ \E m \in Machines :
       /\ configState = m.configState
       /\ configSaved = m.configSaved
       /\ binEnv = m.binEnv
       /\ environ = m.environ
  /\ configState = "valid" => configSaved \in SavedConfigs
  /\ binEnv \in BinEnvs
  /\ environ \in Environs
  /\ pc = "main"
  /\ mode = ""
  /\ rembg_binary = NONE /\ model = "" /\ env = environ
  /\ pass_number = 0 /\ current_input = args.input /\ all_passes = <<>>
  /\ final_output = <<>>
  /\ result = NoResult
  /\ raised = ""
  /\ exitStatus = -1
  /\ reported = ""
  /\ calls = <<>>
  /\ gateCalls = <<>>
  /\ trace = <<>>

\* one _run_rembg call: the arguments it was given, how the process ended
\* and the (success, error) pair it returned
Call(inp, out, o, r) ==
  [input |-> inp, output |-> out, binary |-> rembg_binary, model |-> model, env |-> env,
   kind |-> o.kind, returncode |-> o.returncode,
   stdout |-> o.stdout, stderr |-> o.stderr, errtext |-> o.errtext, result |-> r]

\* an uncaught exception ends the interpreter with status 1
Crash(exc) ==
  /\ raised' = exc
  /\ exitStatus' = 1
  /\ pc' = "exited"

\* a workflow returns (success, message) to main()
Return(ok, message) ==
  /\ result' = [success |-> ok, message |-> message]
  /\ pc' = "report"

(* ------------------------------ actions -------------------------------- *)

\* main(): conflicting flags exit 1, otherwise one workflow is selected
MainDispatch ==
  /\ pc = "main"
  /\ IF args.two_pass /\ args.infinite_hop
     THEN /\ pc' = "exited"
          /\ exitStatus' = 1
          /\ reported' = "stderr"
          /\ UNCHANGED mode
     ELSE /\ mode' = IF args.infinite_hop THEN "infinite_hop"
                     ELSE IF args.two_pass THEN "two_pass" ELSE "single"
          /\ pc' = "validate"
          /\ UNCHANGED << exitStatus, reported >>
  /\ UNCHANGED << inputs, files, prepared, hopLocals, result, raised,
                  calls, gateCalls, trace >>

\* the "# Validate input" block that opens each of the three workflows
Validate ==
  /\ pc = "validate"
  /\ LET err == ValidateInput(args.input, files)
     IN  /\ trace' = trace \o <<"validate">>
         /\ IF err # <<>>
            THEN Return(FALSE, err)
            ELSE pc' = "prepare" /\ UNCHANGED result
  /\ UNCHANGED << inputs, files, mode, prepared, hopLocals, raised, exitStatus,
                  reported, calls, gateCalls >>

\* the "# Prepare rembg" block: one _prepare_rembg call, then the not-found return
Prepare ==
  /\ pc = "prepare"
  /\ trace' = trace \o <<"prepare">>
  /\ LET r == PrepareRembg(configState, configSaved, binEnv.which, binEnv.existing, environ)
     IN  IF r.raised
         THEN /\ Crash("JSONDecodeError")
              /\ UNCHANGED << prepared, hopLocals, result >>
         ELSE IF r.binary = NONE
         THEN /\ Return(FALSE, r.error)
              /\ UNCHANGED << prepared, hopLocals, raised, exitStatus >>
         ELSE /\ rembg_binary' = r.binary
              /\ model' = r.model
              /\ env' = r.env
              /\ pc' = CASE mode = "single" -> "single"
                         [] mode = "two_pass" -> "first_pass"
                         [] mode = "infinite_hop" -> "hop_pass"
              /\ pass_number' = IF mode = "infinite_hop" THEN 1 ELSE pass_number
              /\ UNCHANGED << current_input, all_passes, final_output,
                              result, raised, exitStatus >>
  /\ UNCHANGED << inputs, files, mode, reported, calls, gateCalls >>

\* mutant: a failed pass removes the outputs of the passes before it
AfterPass_CleansUp(r, out) ==
  IF r.success THEN files \cup {out} ELSE files \cap {args.input}

\* what a pass leaves on disk: the tool writes its output when it succeeds
AfterPass(r, out) == IF r.success THEN files \cup {out} ELSE files

\* remove_background(): output path, the single pass, and the return
RunSinglePass ==
  /\ pc = "single"
  /\ \E o \in ProcOutcomes :
       LET suffix == GetOutputSuffix(LoadConfig(configState, configSaved).config)
           out    == SingleOutputPath(args.input, args.output, suffix)
           r      == RunRembg(o)
       IN  /\ calls' = Append(calls, Call(args.input, out, o, r))
           /\ trace' = trace \o <<"run">>
           /\ files' = AfterPass(r, out)
           /\ IF r.success
              THEN Return(TRUE, << <<"Background removed.">>, <<"Saved to: ">> \o out.name >>)
              ELSE Return(FALSE, FailMessage(<<"rembg failed: ">>, r.error))
  /\ UNCHANGED << inputs, mode, prepared, hopLocals, raised, exitStatus,
                  reported, gateCalls >>

\* mutant: the first pass's failure is not checked, the second pass runs anyway
RunFirstPass_NoShortCircuit ==
  /\ pc = "first_pass"
  /\ \E o \in ProcOutcomes :
       LET out == FirstPassPath(args.input)
           r   == RunRembg(o)
       IN  /\ calls' = Append(calls, Call(args.input, out, o, r))
           /\ trace' = trace \o <<"run">>
           /\ files' = AfterPass(r, out)
           /\ pc' = "second_pass"
           /\ UNCHANGED result
  /\ UNCHANGED << inputs, mode, prepared, hopLocals, raised, exitStatus,
                  reported, gateCalls >>

\* remove_background_two_pass(): the first pass
RunFirstPass ==
  /\ pc = "first_pass"
  /\ \E o \in ProcOutcomes :
       LET out == FirstPassPath(args.input)
           r   == RunRembg(o)
       IN  /\ calls' = Append(calls, Call(args.input, out, o, r))
           /\ trace' = trace \o <<"run">>
           /\ files' = AfterPass(r, out)
           /\ IF r.success
              THEN pc' = "second_pass" /\ UNCHANGED result
              ELSE Return(FALSE, FailMessage(<<"First pass failed: ">>, r.error))
  /\ UNCHANGED << inputs, mode, prepared, hopLocals, raised, exitStatus,
                  reported, gateCalls >>

\* mutant: the second pass writes to the caller-supplied output path
RunSecondPass_HonoursOutputArg ==
  /\ pc = "second_pass"
  /\ \E o \in ProcOutcomes :
       LET first == FirstPassPath(args.input)
           out   == IF args.output # <<>> THEN args.output[1]
                    ELSE SecondPassPath(args.input)
           r     == RunRembg(o)
       IN  /\ calls' = Append(calls, Call(first, out, o, r))
           /\ trace' = trace \o <<"run">>
           /\ files' = AfterPass(r, out)
           /\ IF r.success
              THEN Return(TRUE, << <<"Two-pass background removal complete.">>,
                                   <<"First pass: ">> \o first.name,
                                   <<"Final: ">> \o out.name >>)
              ELSE Return(FALSE, FailMessage(<<"Second pass failed: ">>, r.error))
  /\ UNCHANGED << inputs, mode, prepared, hopLocals, raised, exitStatus,
                  reported, gateCalls >>

\* remove_background_two_pass(): the second pass, on the first pass's result
RunSecondPass ==
  /\ pc = "second_pass"
  /\ \E o \in ProcOutcomes :
       LET first == FirstPassPath(args.input)
           out   == SecondPassPath(args.input)
           r     == RunRembg(o)
       IN  /\ calls' = Append(calls, Call(first, out, o, r))
           /\ trace' = trace \o <<"run">>
           /\ files' = AfterPass(r, out)
           /\ IF r.success
              THEN Return(TRUE, << <<"Two-pass background removal complete.">>,
                                   <<"First pass: ">> \o first.name,
                                   <<"Final: ">> \o out.name >>)
              ELSE Return(FALSE, FailMessage(<<"Second pass failed: ">>, r.error))
  /\ UNCHANGED << inputs, mode, prepared, hopLocals, raised, exitStatus,
                  reported, gateCalls >>

\* mutant: the failure label counts the passes that succeeded
RunHopPass_LabelOffByOne ==
  /\ pc = "hop_pass"
  /\ \E o \in ProcOutcomes :
       LET out == HopOutputPath(args.input, pass_number)
           r   == RunRembg(o)
       IN  /\ calls' = Append(calls, Call(current_input, out, o, r))
           /\ trace' = trace \o <<"run">>
           /\ files' = AfterPass(r, out)
           /\ IF r.success
              THEN /\ all_passes' = Append(all_passes, out.name)
                   /\ final_output' = <<out>>
                   /\ pc' = "ask"
                   /\ UNCHANGED result
              ELSE /\ Return(FALSE, FailMessage(<<"Pass ">> \o IntToStr(Len(all_passes))
                                                  \o <<" failed: ">>, r.error))
                   /\ UNCHANGED << all_passes, final_output >>
  /\ UNCHANGED << inputs, mode, prepared, pass_number, current_input, raised,
                  exitStatus, reported, gateCalls >>

\* remove_background_infinite_hop(): the loop body up to the gate
RunHopPass ==
  /\ pc = "hop_pass"
  /\ \E o \in ProcOutcomes :
       LET out == HopOutputPath(args.input, pass_number)
           r   == RunRembg(o)
       IN  /\ calls' = Append(calls, Call(current_input, out, o, r))
           /\ trace' = trace \o <<"run">>
           /\ files' = AfterPass(r, out)
           /\ IF r.success
              THEN /\ all_passes' = Append(all_passes, out.name)
                   /\ final_output' = <<out>>
                   /\ pc' = "ask"
                   /\ UNCHANGED result
              ELSE /\ Return(FALSE, FailMessage(<<"Pass ">> \o IntToStr(pass_number)
                                                  \o <<" failed: ">>, r.error))
                   /\ UNCHANGED << all_passes, final_output >>
  /\ UNCHANGED << inputs, mode, prepared, pass_number, current_input, raised,
                  exitStatus, reported, gateCalls >>

\* mutant: the next pass is not given the previous pass's output
AskUser_NoChain ==
  /\ pc = "ask"
  /\ \E kd \in DialogOutcomes, zn \in DialogOutcomes :
       LET a == AskUserHappy(kd, zn)
       IN  /\ a.raised \/ a.happy \/ pass_number < MaxPasses
           /\ gateCalls' = Append(gateCalls,
                [image |-> final_output[1], pass |-> pass_number, invoked |-> a.invoked,
                 raised |-> a.raised, happy |-> a.happy])
           /\ trace' = trace \o <<"ask">>
           /\ IF a.raised
              THEN /\ Crash("PermissionError")
                   /\ UNCHANGED << result, pass_number, current_input >>
              ELSE IF a.happy
              THEN /\ Return(TRUE, HopSummary(pass_number, all_passes, final_output[1]))
                   /\ UNCHANGED << raised, exitStatus, pass_number, current_input >>
              ELSE /\ pass_number' = pass_number + 1
                   /\ pc' = "hop_pass"
                   /\ UNCHANGED << current_input, result, raised, exitStatus >>
  /\ UNCHANGED << inputs, files, mode, prepared, all_passes, final_output,
                  reported, calls >>

\* mutant: the gate's answer is read the wrong way round (break on "not happy")
AskUser_SwappedAnswer ==
  /\ pc = "ask"
  /\ \E kd \in DialogOutcomes, zn \in DialogOutcomes :
       LET a == AskUserHappy(kd, zn)
       IN  /\ a.raised \/ ~a.happy \/ pass_number < MaxPasses
           /\ gateCalls' = Append(gateCalls,
                [image |-> final_output[1], pass |-> pass_number, invoked |-> a.invoked,
                 raised |-> a.raised, happy |-> a.happy])
           /\ trace' = trace \o <<"ask">>
           /\ IF a.raised
              THEN /\ Crash("PermissionError")
                   /\ UNCHANGED << result, pass_number, current_input >>
              ELSE IF ~a.happy
              THEN /\ Return(TRUE, HopSummary(pass_number, all_passes, final_output[1]))
                   /\ UNCHANGED << raised, exitStatus, pass_number, current_input >>
              ELSE /\ current_input' = final_output[1]
                   /\ pass_number' = pass_number + 1
                   /\ pc' = "hop_pass"
                   /\ UNCHANGED << result, raised, exitStatus >>
  /\ UNCHANGED << inputs, files, mode, prepared, all_passes, final_output,
                  reported, calls >>

\* remove_background_infinite_hop(): the gate, then break-and-summarise or loop
AskUser ==
  /\ pc = "ask"
  /\ \E kd \in DialogOutcomes, zn \in DialogOutcomes :
       LET a == AskUserHappy(kd, zn)
       IN  /\ a.raised \/ a.happy \/ pass_number < MaxPasses
           /\ gateCalls' = Append(gateCalls,
                [image |-> final_output[1], pass |-> pass_number, invoked |-> a.invoked,
                 raised |-> a.raised, happy |-> a.happy])
           /\ trace' = trace \o <<"ask">>
           /\ IF a.raised
              THEN /\ Crash("PermissionError")
                   /\ UNCHANGED << result, pass_number, current_input >>
              ELSE IF a.happy
              THEN /\ Return(TRUE, HopSummary(pass_number, all_passes, final_output[1]))
                   /\ UNCHANGED << raised, exitStatus, pass_number, current_input >>
              ELSE /\ current_input' = final_output[1]
                   /\ pass_number' = pass_number + 1
                   /\ pc' = "hop_pass"
                   /\ UNCHANGED << result, raised, exitStatus >>
  /\ UNCHANGED << inputs, files, mode, prepared, all_passes, final_output,
                  reported, calls >>

\* show_notification(): kdialog, then notify-send, then stderr; a launch error
\* other than FileNotFoundError is not caught
ShowNotification(kd, ns) ==
  IF kd.kind = "exit" /\ kd.returncode = 0 THEN "kdialog"
  ELSE IF kd.kind = "oserror" THEN "raise"
  ELSE IF ns.kind = "exit" /\ ns.returncode = 0 THEN "notify-send"
  ELSE IF ns.kind = "oserror" THEN "raise"
  ELSE "stderr"

\* main(): surface the message, then sys.exit(0 if success else 1)
MainReport ==
  /\ pc = "report"
  /\ \E quiet \in BOOLEAN, no_notify \in BOOLEAN :
       \E via \in IF no_notify \/ quiet
                  THEN { IF quiet THEN "suppressed" ELSE "stdout" }
                  ELSE { ShowNotification(kd, ns) : kd \in DialogOutcomes,
                                                    ns \in DialogOutcomes } :
          IF via = "raise"
          THEN Crash("PermissionError") /\ UNCHANGED reported
          ELSE /\ reported' = via
               /\ exitStatus' = IF result.success THEN 0 ELSE 1
               /\ pc' = "exited"
               /\ UNCHANGED raised
  /\ UNCHANGED << inputs, files, mode, prepared, hopLocals, result,
                  calls, gateCalls, trace >>

Next ==
  \/ MainDispatch
  \/ Validate
  \/ Prepare
  \/ RunSinglePass
  \/ RunFirstPass
  \/ RunSecondPass
  \/ RunHopPass
  \/ AskUser
  \/ MainReport

Spec == Init /\ [][Next]_vars

(* ------------------------------ claims --------------------------------- *)

\* the workflow selected by main() has returned or ended
Finished == mode # "" /\ pc \in {"report", "exited"}

\* the workflow returned a (False, message) pair
ReturnedFailure == ~result.success /\ result.message # <<>>

LastCall == calls[Len(calls)]

\* the allow-list of the claim, written out: .png .jpg .jpeg .webp .bmp .tiff .tif
AllowList ==
  { <<".", "p", "n", "g">>, <<".", "j", "p", "g">>, <<".", "j", "p", "e", "g">>,
    <<".", "w", "e", "b", "p">>, <<".", "b", "m", "p">>,
    <<".", "t", "i", "f", "f">>, <<".", "t", "i", "f">> }

OutsideAllowList == Lower(PathSuffix(args.input.name)) \notin AllowList

\* C1: in each of the three modes, an input whose lower-cased extension is
\* outside the allow-list makes the workflow return failure, and _run_rembg
\* is never called.
C1_UnsupportedNeverRuns ==
  OutsideAllowList =>
    /\ calls = <<>>
    /\ pc \notin {"prepare", "single", "first_pass", "second_pass", "hop_pass", "ask"}
    /\ Finished => ReturnedFailure

\* C1 witness: an existing file with an unsupported extension was rejected in
\* infinite-hop mode
C1_Witness ==
  /\ OutsideAllowList
  /\ args.input \in files
  /\ mode = "infinite_hop"
  /\ pc = "report"
  /\ ReturnedFailure

\* C2: once a _run_rembg call reports failure no further call is made in that
\* invocation: the failed call is the last one, the workflow has returned
\* failure, and a failing first pass of the two-pass workflow leaves the call
\* count at exactly 1.
C2_FailureIsTerminal ==
  /\ \A i \in 1..Len(calls) : ~calls[i].result.success => i = Len(calls)
  /\ (calls # <<>> /\ ~LastCall.result.success) =>
        /\ pc \in {"report", "exited"}
        /\ ReturnedFailure
  /\ (mode = "two_pass" /\ calls # <<>> /\ ~calls[1].result.success) => Len(calls) = 1

\* C2 witness: the two-pass workflow ended after a failed first pass
C2_Witness ==
  /\ mode = "two_pass"
  /\ pc = "exited"
  /\ Len(calls) = 1
  /\ ~calls[1].result.success

\* the events after validation and tool resolution
PassEvents == SubSeq(trace, 3, Len(trace))

\* run, ask, run, ask, ...
Alternating(ev) ==
  \A i \in 1..Len(ev) : ev[i] = IF i % 2 = 1 THEN "run" ELSE "ask"

\* C3: in infinite-hop mode, when the gate answers "happy" on iteration N and
\* not before (every pass having succeeded), there are exactly N runner calls
\* and exactly N gate calls, strictly alternating runner then gate, and the
\* workflow returns success.
C3_HappyAtN ==
  (/\ mode = "infinite_hop"
   /\ gateCalls # <<>>
   /\ gateCalls[Len(gateCalls)].happy) =>
     LET N == Len(gateCalls)
     IN  /\ N >= 1
         /\ Len(calls) = N
         /\ \A i \in 1..N : calls[i].result.success
         /\ \A i \in 1..(N - 1) : ~gateCalls[i].happy
         /\ \A i \in 1..N : gateCalls[i].pass = i
         /\ Len(PassEvents) = 2 * N
         /\ Alternating(PassEvents)
         /\ pc \in {"report", "exited"}
         /\ result.success

\* C3 witness: the user declined after pass 1 and accepted after pass 2
C3_Witness ==
  /\ mode = "infinite_hop"
  /\ Len(gateCalls) = 2
  /\ ~gateCalls[1].happy
  /\ gateCalls[2].happy
  /\ pc = "exited"
  /\ exitStatus = 0

\* the infinite-hop workflow returned success
HopSucceeded == mode = "infinite_hop" /\ pc \in {"report", "exited"} /\ result.success

\* <stem>_noBG-pass-<i>.png for the input of this run
ExpectedPassName(i) ==
  PathStem(args.input.name)
    \o <<"_", "n", "o", "B", "G", "-", "p", "a", "s", "s", "-">> \o IntToStr(i)
    \o <<".", "p", "n", "g">>

IsPassLine(line) == Len(line) > 0 /\ line[1] = "  Pass "

\* the text of a line after its first occurrence of a fragment
AfterFragment(line, frag) ==
  LET k == CHOOSE i \in 1..Len(line) :
             line[i] = frag /\ \A j \in 1..(i - 1) : line[j] # frag
  IN  SubSeq(line, k + 1, Len(line))

\* the file names on the "  Pass i: name" lines of a summary, in order
ListedNames(msg) ==
  LET ls == SelectSeq(msg, IsPassLine)
  IN  [i \in 1..Len(ls) |-> AfterFragment(ls[i], ": ")]

\* the file name on the closing "Final: name" line of a summary
FinalName(msg) == Tail(msg[Len(msg)])

NamesFinal(msg, name) ==
  /\ msg # <<>>
  /\ msg[Len(msg)] # <<>>
  /\ msg[Len(msg)][1] = "Final: "
  /\ FinalName(msg) = name

\* C4 as stated: for all N >= 1, N = 1 included, the summary of a successful
\* infinite-hop run of N passes lists exactly N pass file names, in order
\* <stem>_noBG-pass-1.png .. <stem>_noBG-pass-N.png, and names pass N's file
\* as the final output.
C4_SummaryListsNPasses ==
  HopSucceeded =>
    LET N == Len(calls)
    IN  /\ ListedNames(result.message) = [i \in 1..N |-> ExpectedPassName(i)]
        /\ NamesFinal(result.message, ExpectedPassName(N))

\* C4 amended: the summary always names pass N's file as the final output;
\* for N >= 2 it also lists exactly the N pass file names in order, and for
\* N = 1 it has no pass list at all (a header and the final line only).
C4_SummaryAmended ==
  HopSucceeded =>
    LET N == Len(calls)
        msg == result.message
    IN  /\ N >= 1
        /\ NamesFinal(msg, ExpectedPassName(N))
        /\ IF N = 1
           THEN /\ ListedNames(msg) = <<>>
                /\ Len(msg) = 2
           ELSE /\ ListedNames(msg) = [i \in 1..N |-> ExpectedPassName(i)]
                /\ Len(msg) = N + 2
                /\ \A i \in 1..N :
                     SubSeq(msg[i + 1], 1, Len(IntToStr(i)) + 2)
                       = <<"  Pass ">> \o IntToStr(i) \o <<": ">>

\* C4 witness: a successful run of three passes with three listed names
C4_Witness ==
  /\ HopSucceeded
  /\ Len(calls) = 3
  /\ Len(ListedNames(result.message)) = 3
  /\ pc = "exited"

\* the output suffix the configuration supplies
ConfiguredSuffix == LoadConfig(configState, configSaved).config.output_suffix

\* C5 as stated: for every _run_rembg call of any mode the output path given
\* to the tool is distinct from the input path given to it.
C5_OutputDistinctFromInput ==
  \A i \in 1..Len(calls) : calls[i].input # calls[i].output

\* the two single-pass cases in which the output path is the input path
C5_SinglePassSamePath ==
  /\ mode = "single"
  /\ \/ args.output = << args.input >>
     \/ /\ args.output = <<>>
        /\ ConfiguredSuffix = <<>>
        /\ PathSuffix(args.input.name) = <<".", "p", "n", "g">>

\* C5 amended: every call of the two-pass and infinite-hop modes has an output
\* path distinct from its input path; a single-pass call has one too, except
\* when the caller-supplied output path is the input path itself, or when no
\* output path is supplied, the configured suffix is empty and the input's
\* extension is exactly ".png".
C5_OutputDistinctAmended ==
  \A i \in 1..Len(calls) :
    (calls[i].input = calls[i].output) <=> C5_SinglePassSamePath

\* C5 witness: single pass with an empty suffix on "p.PNG" writes "p.png",
\* which is another path
C5_Witness ==
  /\ mode = "single"
  /\ Len(calls) = 1
  /\ args.output = <<>>
  /\ ConfiguredSuffix = <<>>
  /\ args.input.name = <<"p", ".", "P", "N", "G">>
  /\ calls[1].output.name = <<"p", ".", "p", "n", "g">>
  /\ calls[1].input # calls[1].output

\* the removal binary can be located: on PATH, at a common location, or at an
\* existing configured path
BinaryLocatable ==
  \/ binEnv.which # NONE
  \/ binEnv.existing \cap {"~/.local/bin/rembg", "/usr/local/bin/rembg", "/usr/bin/rembg"} # {}
  \/ /\ configState = "valid"
     /\ "rembg_binary" \in DOMAIN configSaved
     /\ configSaved.rembg_binary \in binEnv.existing

InTrace(ev) == \E i \in 1..Len(trace) : trace[i] = ev

\* C6: in every mode the existence check comes first ("File not found"), the
\* extension check second ("Unsupported format"), and both are decided before
\* the tool is resolved or a process is spawned, so a missing or unsupported
\* input yields its validation error even when the binary cannot be found.
C6_ValidationFirst ==
  /\ (Finished /\ args.input \notin files) =>
        /\ result = [success |-> FALSE,
                     message |-> << <<"File not found: ", args.input.parent, "/">>
                                      \o args.input.name >>]
        /\ ~InTrace("prepare")
        /\ calls = <<>>
  /\ (Finished /\ args.input \in files /\ OutsideAllowList) =>
        /\ result = [success |-> FALSE,
                     message |-> << <<"Unsupported format: ">>
                                      \o PathSuffix(args.input.name) >>]
        /\ ~InTrace("prepare")
        /\ calls = <<>>
  /\ \A i \in 1..Len(trace) :
        /\ trace[i] = "validate" <=> i = 1
        /\ trace[i] = "prepare" <=> i = 2
  /\ InTrace("prepare") => args.input \in files /\ ~OutsideAllowList

\* C6 witness: a missing file with an unsupported extension, on a machine
\* where the binary cannot be located, was reported as "File not found"
C6_Witness ==
  /\ mode = "two_pass"
  /\ pc = "report"
  /\ args.input \notin files
  /\ OutsideAllowList
  /\ ~BinaryLocatable
  /\ result.message[1][1] = "File not found: "

\* C7: in the multi-pass modes the first pass reads the original input and
\* every later pass reads exactly the path the preceding pass wrote: two-pass
\* writes <stem>_noBG-first-pass.png then <stem>_noBG-second-pass.png, and
\* infinite-hop pass k writes <stem>_noBG-pass-k.png, k counting from 1.
C7_Chaining ==
  (mode \in {"two_pass", "infinite_hop"}) =>
    /\ \A i \in 1..Len(calls) :
         /\ i = 1 => calls[i].input = args.input
         /\ i >= 2 => calls[i].input = calls[i - 1].output
         /\ calls[i].output.parent = args.input.parent
         /\ mode = "infinite_hop" => calls[i].output.name = ExpectedPassName(i)
    /\ mode = "two_pass" =>
         /\ Len(calls) <= 2
         /\ Len(calls) >= 1 =>
              calls[1].output.name =
                PathStem(args.input.name)
                  \o <<"_", "n", "o", "B", "G", "-", "f", "i", "r", "s", "t",
                       "-", "p", "a", "s", "s", ".", "p", "n", "g">>
         /\ Len(calls) = 2 =>
              calls[2].output.name =
                PathStem(args.input.name)
                  \o <<"_", "n", "o", "B", "G", "-", "s", "e", "c", "o", "n", "d",
                       "-", "p", "a", "s", "s", ".", "p", "n", "g">>

\* C7 witness: the third infinite-hop pass read the second pass's file
C7_Witness ==
  /\ mode = "infinite_hop"
  /\ Len(calls) = 3
  /\ calls[3].input.name = ExpectedPassName(2)
  /\ calls[3].output.name = ExpectedPassName(3)

\* C8: a failed pass of a multi-pass workflow is reported with the label of the
\* pass that failed: "First pass failed: " or "Second pass failed: " in
\* two-pass mode, "Pass N failed: " in infinite-hop mode with N the number of
\* runner calls made, and the gate was not asked about the failed pass (it was
\* asked N - 1 times).
C8_FailureLabel ==
  (Finished /\ calls # <<>> /\ ~LastCall.result.success) =>
    LET N == Len(calls)
        error == LastCall.result.error
    IN  /\ mode = "two_pass" =>
             result = [success |-> FALSE,
                       message |-> << << IF N = 1 THEN "First pass failed: "
                                                  ELSE "Second pass failed: ",
                                         error >> >>]
        /\ mode = "infinite_hop" =>
             /\ result = [success |-> FALSE,
                          message |-> << <<"Pass ">> \o IntToStr(N)
                                           \o <<" failed: ", error>> >>]
             /\ Len(gateCalls) = N - 1

\* C8 witness: the second infinite-hop pass failed after one gate call
C8_Witness ==
  /\ mode = "infinite_hop"
  /\ pc = "report"
  /\ Len(calls) = 2
  /\ ~calls[2].result.success
  /\ Len(gateCalls) = 1

C10_TimeoutMessage ==
  /\ \A i \in 1..Len(calls) :
       /\ calls[i].kind = "timeout" =>
            /\ calls[i].result =
                 [success |-> FALSE, error |-> "Operation timed out (>2 minutes)"]
            /\ calls[i].result.error \notin {"out", "err", "Unknown error"}
       /\ (calls[i].kind = "exit" /\ calls[i].returncode # 0) =>
            /\ ~calls[i].result.success
            /\ calls[i].result.error \in {"out", "err", "Unknown error"}
            /\ calls[i].result.error # "Operation timed out (>2 minutes)"
  /\ (Finished /\ calls # <<>> /\ LastCall.kind = "timeout") =>
       /\ ~result.success
       /\ Len(result.message) = 1
       /\ result.message[1][Len(result.message[1])] = "Operation timed out (>2 minutes)"

\* C10 witness: a single pass timed out and the workflow returned
C10_Witness ==
  /\ mode = "single"
  /\ pc = "report"
  /\ Len(calls) = 1
  /\ calls[1].kind = "timeout"
  /\ result.message = << <<"rembg failed: ", "Operation timed out (>2 minutes)">> >>

\* neither dialog tool could be found when gate call g was made
NoDialogTool(g) ==
  /\ Len(g.invoked) = 2
  /\ g.invoked[1].kind = "notfound"
  /\ g.invoked[2].kind = "notfound"

\* C11: when neither dialog tool is available the gate auto-accepts, so an
\* infinite-hop invocation whose first pass succeeds makes exactly one runner
\* call and ends with success.
C11_AutoAccept ==
  /\ \A i \in 1..Len(gateCalls) :
       NoDialogTool(gateCalls[i]) =>
         /\ gateCalls[i].happy
         /\ ~gateCalls[i].raised
         /\ i = Len(gateCalls)
         /\ Len(calls) = i
         /\ pc \in {"report", "exited"}
         /\ result.success
  /\ (gateCalls # <<>> /\ NoDialogTool(gateCalls[1])) =>
       /\ Len(calls) = 1
       /\ calls[1].result.success
       /\ Len(result.message) = 2
       /\ result.message[1] = <<"Infinite Hop complete after 1 pass.">>

\* C11 witness: a headless infinite-hop run ended after its first pass
C11_Witness ==
  /\ mode = "infinite_hop"
  /\ pc = "exited"
  /\ exitStatus = 0
  /\ Len(gateCalls) = 1
  /\ NoDialogTool(gateCalls[1])
  /\ Len(calls) = 1

\* the selected workflow returned (success, message) to main()
WorkflowReturned == mode # "" /\ result # NoResult

\* C12: the exit status of the process is 0 if and only if the selected
\* workflow returned success, and 1 otherwise, whether the result was shown by
\* a notification, printed, or suppressed.
C12_ExitStatusIsSuccess ==
  pc = "exited" =>
    exitStatus = IF WorkflowReturned /\ result.success THEN 0 ELSE 1

\* single pass with no explicit output: <stem><suffix>.png beside the input
ExpectedSingleOutput ==
  [parent |-> args.input.parent,
   name   |-> PathStem(args.input.name) \o ConfiguredSuffix \o <<".", "p", "n", "g">>]

\* C13: a single-pass run with no explicit output path gives the tool the
\* output path <input-stem><configured-suffix>.png in the input's directory,
\* whatever the input's extension; an explicit output path is used unchanged.
\* A successful run reports that file's name.
C13_SingleOutputName ==
  (mode = "single" /\ calls # <<>>) =>
    /\ Len(calls) = 1
    /\ calls[1].input = args.input
    /\ args.output = <<>> => calls[1].output = ExpectedSingleOutput
    /\ args.output # <<>> => calls[1].output = args.output[1]
    /\ PathSuffix(calls[1].output.name) = <<".", "p", "n", "g">> \/ args.output # <<>>
    /\ (Finished /\ result.success) =>
         result.message = << <<"Background removed.">>,
                             <<"Saved to: ">> \o calls[1].output.name >>

\* C13 witness: "a.b.Jpeg" with the suffix "-x" was written to "a.b-x.png"
C13_Witness ==
  /\ mode = "single"
  /\ pc = "report"
  /\ result.success
  /\ args.output = <<>>
  /\ args.input.name = <<"a", ".", "b", ".", "J", "p", "e", "g">>
  /\ ConfiguredSuffix = <<"-", "x">>
  /\ calls[1].output = [parent |-> "/d", name |-> <<"a", ".", "b", "-", "x", ".", "p", "n", "g">>]

\* C14: the gate consults the dialog tools in a fixed order: kdialog first,
\* and when it can be launched its exit code alone decides (0 = happy, any
\* other code = continue) and zenity is never invoked; zenity is invoked only
\* when kdialog is unavailable, with the same exit-code meaning.
C14_DialogOrder ==
  \A i \in 1..Len(gateCalls) :
    LET g == gateCalls[i]
    IN  /\ Len(g.invoked) \in {1, 2}
        /\ g.invoked[1].tool = "kdialog"
        /\ g.invoked[1].kind = "exit" =>
             /\ Len(g.invoked) = 1
             /\ ~g.raised
             /\ g.happy <=> g.invoked[1].returncode = 0
        /\ Len(g.invoked) = 2 =>
             /\ g.invoked[2].tool = "zenity"
             /\ g.invoked[1].kind = "notfound"
             /\ g.invoked[2].kind = "exit" =>
                  /\ ~g.raised
                  /\ g.happy <=> g.invoked[2].returncode = 0
        /\ (~g.raised /\ ~g.happy) =>
             Len(calls) > i \/ pc = "hop_pass"

\* C14 witness: kdialog was missing and zenity's exit code 2 asked for
\* another pass
C14_Witness ==
  /\ Len(gateCalls) >= 1
  /\ Len(gateCalls[1].invoked) = 2
  /\ gateCalls[1].invoked[2].kind = "exit"
  /\ gateCalls[1].invoked[2].returncode = 2
  /\ ~gateCalls[1].happy
  /\ Len(calls) = 2

\* C15: _run_rembg classifies its process: exit code 0 is success with an
\* empty message; a non-zero exit is failure with stderr if non-empty, else
\* stdout if non-empty, else "Unknown error"; a process that cannot be launched
\* is failure with the system's error text.  One process is spawned per call.
C15_RunnerClassification ==
  /\ \A i \in 1..Len(calls) :
       LET c == calls[i]
       IN  /\ (c.kind = "exit" /\ c.returncode = 0) =>
                c.result = [success |-> TRUE, error |-> ""]
           /\ (c.kind = "exit" /\ c.returncode # 0 /\ c.stderr # "") =>
                c.result = [success |-> FALSE, error |-> c.stderr]
           /\ (c.kind = "exit" /\ c.returncode # 0 /\ c.stderr = "" /\ c.stdout # "") =>
                c.result = [success |-> FALSE, error |-> c.stdout]
           /\ (c.kind = "exit" /\ c.returncode # 0 /\ c.stderr = "" /\ c.stdout = "") =>
                c.result = [success |-> FALSE, error |-> "Unknown error"]
           /\ c.kind = "oserror" =>
                c.result = [success |-> FALSE, error |-> c.errtext]
  /\ Cardinality({j \in 1..Len(trace) : trace[j] = "run"}) = Len(calls)

\* C15 witness: a failed exit that wrote to both streams reported stderr
C15_Witness ==
  /\ pc = "report"
  /\ calls # <<>>
  /\ LastCall.kind = "exit"
  /\ LastCall.returncode # 0
  /\ LastCall.stdout = "out"
  /\ LastCall.stderr = "err"
  /\ LastCall.result.error = "err"

\* the override of the merged configuration; "" and None both mean none
ConfiguredOverride == LoadConfig(configState, configSaved).config.rocm_gfx_version

OverrideConfigured == ConfiguredOverride \notin {"", NONE}

\* every ambient variable other than the override is in e with its value, and
\* e has no variable that is neither ambient nor the override
OthersPassedThrough(e) ==
  /\ DOMAIN e \subseteq DOMAIN environ \cup {"HSA_OVERRIDE_GFX_VERSION"}
  /\ \A k \in DOMAIN environ \ {"HSA_OVERRIDE_GFX_VERSION"} :
       k \in DOMAIN e /\ e[k] = environ[k]

\* C16 as stated: the tool's environment has HSA_OVERRIDE_GFX_VERSION only
\* when an override is configured, then with the configured value; with no
\* override configured the variable is unset there; every other ambient
\* variable is passed through unchanged.
C16_OverrideOnlyWhenConfigured ==
  \A i \in 1..Len(calls) :
    LET e == calls[i].env
    IN  /\ OverrideConfigured =>
             /\ "HSA_OVERRIDE_GFX_VERSION" \in DOMAIN e
             /\ e["HSA_OVERRIDE_GFX_VERSION"] = ConfiguredOverride
        /\ ~OverrideConfigured => "HSA_OVERRIDE_GFX_VERSION" \notin DOMAIN e
        /\ OthersPassedThrough(e)

\* C16 amended: with an override configured the tool's environment has
\* HSA_OVERRIDE_GFX_VERSION with the configured value; with none configured
\* the tool's environment is the ambient environment itself, so the variable
\* is there exactly when the ambient environment has it, with the ambient
\* value, and is never introduced as an empty string; every other ambient
\* variable is passed through unchanged.
C16_OverrideAmended ==
  \A i \in 1..Len(calls) :
    LET e == calls[i].env
    IN  /\ OverrideConfigured =>
             /\ "HSA_OVERRIDE_GFX_VERSION" \in DOMAIN e
             /\ e["HSA_OVERRIDE_GFX_VERSION"] = ConfiguredOverride
        /\ ~OverrideConfigured => e = environ
        /\ OthersPassedThrough(e)

\* C16 witness: the override is switched off in the configuration, the ambient
\* environment carries the variable, and the tool was run with the ambient value
C16_Witness ==
  /\ calls # <<>>
  /\ ~OverrideConfigured
  /\ "HSA_OVERRIDE_GFX_VERSION" \in DOMAIN environ
  /\ "HSA_OVERRIDE_GFX_VERSION" \in DOMAIN calls[1].env
  /\ calls[1].env["HSA_OVERRIDE_GFX_VERSION"] = "9.0.0"

\* an exception left the selected workflow before it returned its pair
EscapedWorkflow == mode # "" /\ raised # "" /\ result = NoResult

\* C17: every component of the core reports an error as a returned
\* success/failure value with a message: no failure of tool resolution,
\* configuration lookup, process launch or dialog launch leaves a workflow
\* call as an exception.
C17_NoExceptionEscapes == ~EscapedWorkflow

\* C18: the workflows never delete or rename a file: every output written by
\* a successful pass is still present afterwards, in particular after a later
\* pass of a multi-pass run has failed, and the input file that passed
\* validation is still present in every outcome.
C18_NothingDeleted ==
  /\ \A i \in 1..Len(calls) :
       calls[i].result.success => calls[i].output \in files
  /\ InTrace("prepare") => args.input \in files

\* C18 witness: a multi-pass run failed at its second or a later pass and has
\* returned; the earlier outputs and the input are present
C18_Witness ==
  /\ mode \in {"two_pass", "infinite_hop"}
  /\ pc = "report"
  /\ Len(calls) >= 2
  /\ ~LastCall.result.success
  /\ calls[1].result.success
  /\ calls[1].output \in files
  /\ args.input \in files

\* the paths a multi-pass run on this input may write after n calls: beside
\* the input, <stem> followed by one of the fixed names
FixedPassPaths(n) ==
  LET fixed == IF mode = "two_pass"
               THEN { <<"_", "n", "o", "B", "G", "-", "f", "i", "r", "s", "t",
                        "-", "p", "a", "s", "s", ".", "p", "n", "g">>,
                      <<"_", "n", "o", "B", "G", "-", "s", "e", "c", "o", "n", "d",
                        "-", "p", "a", "s", "s", ".", "p", "n", "g">> }
               ELSE { <<"_", "n", "o", "B", "G", "-", "p", "a", "s", "s", "-">>
                        \o IntToStr(k) \o <<".", "p", "n", "g">> : k \in 1..n }
  IN  { [parent |-> args.input.parent, name |-> PathStem(args.input.name) \o t] :
          t \in fixed }

\* C19: in two-pass and infinite-hop modes the paths written depend only on
\* the input's directory and stem with the fixed _noBG-first-pass /
\* _noBG-second-pass / _noBG-pass-N names: whatever -o path was supplied and
\* whatever output suffix is configured, every call writes one of those paths,
\* reads the input or one of them, and nothing else appears on disk.
C19_MultiPassIgnoresOutputOptions ==
  (mode \in {"two_pass", "infinite_hop"}) =>
    /\ \A i \in 1..Len(calls) :
         /\ calls[i].output \in FixedPassPaths(Len(calls))
         /\ calls[i].input \in {args.input} \cup FixedPassPaths(Len(calls))
    /\ files \subseteq {args.input} \cup FixedPassPaths(Len(calls))

\* C19 witness: a two-pass run given -o /o/o.png under the configured suffix
\* "-x" ran both passes, and /o/o.png was not written
C19_Witness ==
  /\ mode = "two_pass"
  /\ args.output = << [parent |-> "/o", name |-> <<"o", ".", "p", "n", "g">>] >>
  /\ ConfiguredSuffix = <<"-", "x">>
  /\ Len(calls) = 2
  /\ calls[2].result.success
  /\ args.output[1] \notin files

====
